---- MODULE Spec2Model ----
(***************************************************************************)
(* State machine of the "impostor" party game: GameService (the session    *)
(* store, persistence, role assignment and turn machine) together with the *)
(* Setup page handlers that drive it.                                      *)
(*                                                                         *)
(* JavaScript values are modelled as follows.  A string that the code      *)
(* trims (player names, the name input buffer) is a sequence of one-       *)
(* character strings.  An object is a TLA+ record; a property that is      *)
(* missing from an object is missing from the record's DOMAIN, and the     *)
(* object spread {...a, ...b} is Spread(a, b).  null is the empty tuple    *)
(* and a non-null nullable value v is <<v>>.  Arrays are sequences, so the *)
(* 0-based index i of the code is position i + 1 here.                     *)
(***************************************************************************)
EXTENDS Integers, Sequences, FiniteSets, TLC

\* Largest roster the model lets the user build.
MaxPlayers == 3
\* the largest roster the random impostor count is sampled for
MaxSampled == 10
\* weights and random values are fixed-point numbers: DrawScale stands for 1.0
DrawScale == 1000

Undefined == "undefined"
Null == <<>>
Some(v) == <<v>>

Get(r, f) == IF f \in DOMAIN r THEN r[f] ELSE Undefined
Spread(a, b) == [f \in (DOMAIN a) \cup (DOMAIN b) |-> IF f \in DOMAIN b THEN b[f] ELSE a[f]]
Includes(seq, v) == \E i \in 1..Len(seq) : seq[i] = v
Max(a, b) == IF a > b THEN a ELSE b
Min(a, b) == IF a < b THEN a ELSE b

RECURSIVE TrimStart(_)
TrimStart(t) == IF t # <<>> /\ Head(t) = " " THEN TrimStart(Tail(t)) ELSE t
RECURSIVE TrimEnd(_)
TrimEnd(t) == IF t # <<>> /\ t[Len(t)] = " " THEN TrimEnd(SubSeq(t, 1, Len(t) - 1)) ELSE t
Trim(t) == TrimEnd(TrimStart(t))

\* if (x) on a string | undefined value
Truthy(h) == h # Undefined /\ h # ""

(***************************************************************************)
(* Inputs of the environment.                                              *)
(***************************************************************************)
\* texts the user can type into the name field when the roster has n
\* players: nothing, a blank, or the name of the next player
NameInputs(n) == { <<>>, <<" ">>, IF n = 0 THEN <<" ", "a">> ELSE <<"b", " ">> }

\* the catalog the static resource returns when the fetch succeeds
Catalog ==
    << [categoria |-> "X", palabraSecreta |-> "w1", pistasImpostor |-> <<"h1", "h2">>],
       [categoria |-> "Y", palabraSecreta |-> "w2", pistasImpostor |-> <<>>] >>

FallbackWords ==
    << [categoria |-> "Cultura Arg", palabraSecreta |-> "Mate",
        pistasImpostor |-> <<"Yerba", "Bombilla", "Caliente", "Porongo", "Amargo">>] >>

DEFAULT_SETUP_STATE ==
    [impostorCount |-> 1,
     selectedCategories |-> <<>>,
     shareImpostorHints |-> TRUE,
     isRandomImpostorCount |-> FALSE,
     isPlayersOpen |-> TRUE,
     isImpostorsOpen |-> TRUE,
     isCategoriesOpen |-> TRUE,
     playerNameInput |-> <<>>]

\* the signals of a freshly constructed GameService
DefaultSession ==
    [players |-> <<>>,
     gameState |-> "SETUP",
     currentTurnIndex |-> 0,
     currentWord |-> Null,
     startingPlayer |-> Null,
     setupState |-> DEFAULT_SETUP_STATE]

(***************************************************************************)
(* GameService: roster and setup operations, as functions on the session.  *)
(***************************************************************************)
isGameReady_Two(s) == Len(s.players) >= 2

isGameReady(s) == Len(s.players) >= 3

addPlayer_NoTrim(s, name) ==
    IF Trim(name) # <<>>
    THEN [s EXCEPT !.players = Append(@, [name |-> name])]
    ELSE s

addPlayer(s, name) ==
    IF Trim(name) # <<>>
    THEN [s EXCEPT !.players = Append(@, [name |-> Trim(name)])]
    ELSE s

RECURSIVE FilterOutIndex(_, _, _)
FilterOutIndex(p, index, i) ==
    IF i > Len(p) THEN <<>>
    ELSE (IF i - 1 # index THEN <<p[i]>> ELSE <<>>) \o FilterOutIndex(p, index, i + 1)

removePlayer(s, index) == [s EXCEPT !.players = FilterOutIndex(@, index, 1)]

clearPlayers(s) == [s EXCEPT !.players = <<>>]

updateSetupConfig_Replace(s, partial) ==
    [s EXCEPT !.setupState = Spread(DEFAULT_SETUP_STATE, partial)]

updateSetupConfig(s, partial) == [s EXCEPT !.setupState = Spread(@, partial)]

toggleSection(s, section) ==
    [s EXCEPT !.setupState =
        CASE section = "players" -> Spread(@, [isPlayersOpen |-> ~@.isPlayersOpen])
          [] section = "impostors" -> Spread(@, [isImpostorsOpen |-> ~@.isImpostorsOpen])
          [] section = "categories" -> Spread(@, [isCategoriesOpen |-> ~@.isCategoriesOpen])]

toggleCategory(s, category) ==
    LET cats == s.setupState.selectedCategories
        newCats == IF Includes(cats, category)
                   THEN SelectSeq(cats, LAMBDA c : c # category)
                   ELSE Append(cats, category)
    IN [s EXCEPT !.setupState = Spread(@, [selectedCategories |-> newCats])]

selectAllCategories(s, cats) ==
    [s EXCEPT !.setupState = Spread(@, [selectedCategories |-> cats])]

selectNoCategories(s) ==
    [s EXCEPT !.setupState = Spread(@, [selectedCategories |-> <<>>])]

invertCategorySelection(s, cats) ==
    LET current == s.setupState.selectedCategories
        inverted == SelectSeq(cats, LAMBDA c : ~Includes(current, c))
    IN [s EXCEPT !.setupState = Spread(@, [selectedCategories |-> inverted])]

setImpostorCount(s, count) ==
    [s EXCEPT !.setupState = Spread(@, [impostorCount |-> count])]

setPlayerNameInput(s, name) ==
    [s EXCEPT !.setupState = Spread(@, [playerNameInput |-> name])]

(***************************************************************************)
(* GameService: role assignment.  Every Math.random() call of startGame    *)
(* is an explicit draw: rnd.word, rnd.shared, rnd.own[i] and rnd.start     *)
(* hold Math.floor(Math.random() * k) + 1 for the k in the code, and       *)
(* rnd.roles is what shuffleArray returned.                                *)
(***************************************************************************)
Swap(a, i, j) == [a EXCEPT ![i] = a[j], ![j] = a[i]]

\* the Fisher-Yates loop from position i down to 2; d[i] is the draw for i
RECURSIVE ShuffleFrom(_, _, _)
ShuffleFrom(a, i, d) ==
    IF i < 2 THEN a ELSE ShuffleFrom(Swap(a, i, d[i]), i - 1, d)

shuffleArray(array, d) == ShuffleFrom(array, Len(array), d)

\* the draws Math.random() can produce for an array of length len
ShuffleDraws(len) == { d \in [2..len -> 1..len] : \A k \in 2..len : d[k] <= k }

\* everything shuffleArray(array) can return
ShuffleOutcomes(array) == { shuffleArray(array, d) : d \in ShuffleDraws(Len(array)) }

filteredWords_NoFilter(ws, config) == ws

filteredWords(ws, config) ==
    SelectSeq(ws, LAMBDA w : Includes(config.categories, w.categoria))

\* startGame gets past both early returns
ReachesAssignment(s, ws, config) ==
    /\ ws # <<>>
    /\ isGameReady(s)
    /\ filteredWords(ws, config) # <<>>

BuildRoles_OneMore(impostorCount, playerCount) ==
    LET impostors == [i \in 1..Max(impostorCount + 1, 0) |-> "Impostor"]
    IN impostors \o [i \in 1..Max(playerCount - Len(impostors), 0) |-> "Citizen"]

\* roles before the shuffle: the for loop, then the while loop
BuildRoles(impostorCount, playerCount) ==
    LET impostors == [i \in 1..Max(impostorCount, 0) |-> "Impostor"]
    IN impostors \o [i \in 1..Max(playerCount - Len(impostors), 0) |-> "Citizen"]

PickSharedHint_Never(config, hints, draw) == Undefined

\* the shared hint, when sharing is on and the word has hints
PickSharedHint(config, hints, draw) ==
    IF config.shareImpostorHints /\ Len(hints) > 0 THEN hints[draw] ELSE Undefined

AssignHint_AnyRole(role, sharedHint, hints, own, i) ==
    IF Truthy(sharedHint) THEN sharedHint ELSE Undefined

\* the hint of the player at position i, whose role is role
AssignHint(role, sharedHint, hints, own, i) ==
    IF role = "Impostor"
    THEN IF Truthy(sharedHint) THEN sharedHint
         ELSE IF Len(hints) > 0 THEN hints[own[i]]
         ELSE Undefined
    ELSE Undefined

NoDraws == [word |-> 1, roles |-> <<>>, shared |-> 1, own |-> <<>>, start |-> 1]

\* the draws of one startGame call; own[i] is drawn only for an impostor at
\* position i that got no shared hint, from a word that has hints
StartDraws(s, ws, config) ==
    IF ~ReachesAssignment(s, ws, config) THEN {NoDraws}
    ELSE LET fw == filteredWords(ws, config)
             n == Len(s.players)
             shuffled == ShuffleOutcomes(BuildRoles(config.impostorCount, n))
             hintsOf(w) == fw[w].pistasImpostor
             sharedSet(w) == IF config.shareImpostorHints /\ Len(hintsOf(w)) > 0
                             THEN 1..Len(hintsOf(w)) ELSE {1}
             ownDrawn(w, h) == /\ Len(hintsOf(w)) > 0
                               /\ ~Truthy(PickSharedHint(config, hintsOf(w), h))
             ownSet(w, h, roles) ==
                 IF ownDrawn(w, h)
                 THEN [{ i \in 1..n : roles[i] = "Impostor" } -> 1..Len(hintsOf(w))]
                 ELSE {<<>>}
         IN UNION { UNION { UNION {
               { [word |-> w, roles |-> roles, shared |-> h, own |-> o, start |-> st] :
                     o \in ownSet(w, h, roles), st \in 1..n }
               : roles \in shuffled } : h \in sharedSet(w) } : w \in 1..Len(fw) }

startGame(s, ws, config, rnd) ==
    LET s1 == updateSetupConfig(s, config)
    IN IF ws = <<>> \/ ~isGameReady(s1) THEN s1
       ELSE IF filteredWords(ws, config) = <<>> THEN s1
       ELSE
         LET randomWord == filteredWords(ws, config)[rnd.word]
             hints == randomWord.pistasImpostor
             playerCount == Len(s1.players)
             roles == rnd.roles
             sharedHint == PickSharedHint(config, hints, rnd.shared)
             hintOf(i) == AssignHint(roles[i], sharedHint, hints, rnd.own, i)
             assigned == [i \in 1..playerCount |->
                            Spread(s1.players[i], [role |-> roles[i], impostorHint |-> hintOf(i)])]
             starting == IF playerCount > 0 THEN Some(assigned[rnd.start].name) ELSE Null
         IN [s1 EXCEPT !.currentWord = Some(randomWord),
                       !.players = assigned,
                       !.startingPlayer = starting,
                       !.currentTurnIndex = 0,
                       !.gameState = "VIEW_ROLE"]

(***************************************************************************)
(* GameService: turn and phase machine.                                    *)
(***************************************************************************)
nextTurn_OffByOne(s) ==
    LET nextIndex == s.currentTurnIndex + 1
    IN IF nextIndex <= Len(s.players)
       THEN [s EXCEPT !.currentTurnIndex = nextIndex]
       ELSE [s EXCEPT !.gameState = "PLAYING"]

nextTurn(s) ==
    LET nextIndex == s.currentTurnIndex + 1
    IN IF nextIndex < Len(s.players)
       THEN [s EXCEPT !.currentTurnIndex = nextIndex]
       ELSE [s EXCEPT !.gameState = "PLAYING"]

previousTurn_ToFirst(s) ==
    IF s.gameState = "PLAYING"
    THEN [s EXCEPT !.gameState = "VIEW_ROLE", !.currentTurnIndex = 0]
    ELSE IF s.currentTurnIndex > 0
         THEN [s EXCEPT !.currentTurnIndex = @ - 1]
         ELSE s

previousTurn(s) ==
    IF s.gameState = "PLAYING"
    THEN [s EXCEPT !.gameState = "VIEW_ROLE", !.currentTurnIndex = Len(s.players) - 1]
    ELSE IF s.currentTurnIndex > 0
         THEN [s EXCEPT !.currentTurnIndex = @ - 1]
         ELSE s

startVoting(s) == [s EXCEPT !.gameState = "VOTING"]

resetGame_KeepsHints(s) ==
    [s EXCEPT !.gameState = "SETUP",
              !.currentTurnIndex = 0,
              !.currentWord = Null,
              !.startingPlayer = Null,
              !.players = [i \in 1..Len(@) |->
                             [f \in DOMAIN @[i] \ {"role"} |-> @[i][f]]]]

\* the signal writes of resetGame; its saveState() call is in the action
resetGame(s) ==
    [s EXCEPT !.gameState = "SETUP",
              !.currentTurnIndex = 0,
              !.currentWord = Null,
              !.startingPlayer = Null,
              !.players = [i \in 1..Len(@) |-> [name |-> @[i].name]]]

(***************************************************************************)
(* GameService: persistence.  The stored item is the object JSON.parse     *)
(* gives back for the string JSON.stringify wrote: a property whose value  *)
(* is undefined is not written, null and everything else is kept.          *)
(***************************************************************************)
NoItem == [kind |-> "none"]
CorruptItem == [kind |-> "corrupt"]

JsonPlayer(p) ==
    [f \in { g \in DOMAIN p : g \in {"role", "impostorHint"} => p[g] # Undefined } |-> p[f]]

saveState(s) ==
    [kind |-> "json",
     state |-> [players |-> [i \in 1..Len(s.players) |-> JsonPlayer(s.players[i])],
                gameState |-> s.gameState,
                currentTurnIndex |-> s.currentTurnIndex,
                currentWord |-> s.currentWord,
                setupState |-> s.setupState,
                startingPlayer |-> s.startingPlayer]]

\* state.f || dflt for the values saveState writes (0, null and [] load as themselves)
OrElse(state, f, dflt) == IF f \in DOMAIN state THEN state[f] ELSE dflt

loadState_FreshOnCorrupt(item) ==
    IF item.kind # "json"
    THEN [session |-> DefaultSession, isFreshStart |-> TRUE, storage |-> NoItem]
    ELSE [session |-> [players |-> OrElse(item.state, "players", <<>>),
                       gameState |-> OrElse(item.state, "gameState", "SETUP"),
                       currentTurnIndex |-> OrElse(item.state, "currentTurnIndex", 0),
                       currentWord |-> OrElse(item.state, "currentWord", Null),
                       startingPlayer |-> OrElse(item.state, "startingPlayer", Null),
                       setupState |-> Spread(DEFAULT_SETUP_STATE,
                                             OrElse(item.state, "setupState", <<>>))],
          isFreshStart |-> FALSE,
          storage |-> item]

loadState_KeepsCorrupt(item) ==
    IF item.kind # "json"
    THEN [session |-> DefaultSession, isFreshStart |-> item.kind = "none",
          storage |-> item]
    ELSE [session |-> [players |-> OrElse(item.state, "players", <<>>),
                       gameState |-> OrElse(item.state, "gameState", "SETUP"),
                       currentTurnIndex |-> OrElse(item.state, "currentTurnIndex", 0),
                       currentWord |-> OrElse(item.state, "currentWord", Null),
                       startingPlayer |-> OrElse(item.state, "startingPlayer", Null),
                       setupState |-> Spread(DEFAULT_SETUP_STATE,
                                             OrElse(item.state, "setupState", <<>>))],
          isFreshStart |-> FALSE,
          storage |-> item]

loadState_NoStartingPlayer(item) ==
    IF item.kind # "json"
    THEN [session |-> DefaultSession, isFreshStart |-> item.kind = "none",
          storage |-> NoItem]
    ELSE [session |-> [players |-> OrElse(item.state, "players", <<>>),
                       gameState |-> OrElse(item.state, "gameState", "SETUP"),
                       currentTurnIndex |-> OrElse(item.state, "currentTurnIndex", 0),
                       currentWord |-> OrElse(item.state, "currentWord", Null),
                       startingPlayer |-> Null,
                       setupState |-> Spread(DEFAULT_SETUP_STATE,
                                             OrElse(item.state, "setupState", <<>>))],
          isFreshStart |-> FALSE,
          storage |-> item]

\* the result of loadState() on a fresh service: the signals, isFreshStart
\* and what is left in the store
loadState(item) ==
    IF item.kind = "none"
    THEN [session |-> DefaultSession, isFreshStart |-> TRUE, storage |-> item]
    ELSE IF item.kind = "corrupt"
    THEN [session |-> DefaultSession, isFreshStart |-> FALSE, storage |-> NoItem]
    ELSE
      LET state == item.state
          migrate == "setupState" \notin DOMAIN state /\ "lastGameConfig" \in DOMAIN state
          loadedSetup ==
              IF migrate
              THEN [impostorCount |-> Get(state.lastGameConfig, "impostorCount"),
                    selectedCategories |-> Get(state.lastGameConfig, "categories"),
                    shareImpostorHints |-> Get(state.lastGameConfig, "shareImpostorHints"),
                    isRandomImpostorCount |-> Get(state.lastGameConfig, "isRandomImpostorCount")]
              ELSE OrElse(state, "setupState", <<>>)
      IN [session |-> [players |-> OrElse(state, "players", <<>>),
                       gameState |-> OrElse(state, "gameState", "SETUP"),
                       currentTurnIndex |-> OrElse(state, "currentTurnIndex", 0),
                       currentWord |-> OrElse(state, "currentWord", Null),
                       startingPlayer |-> OrElse(state, "startingPlayer", Null),
                       setupState |-> Spread(DEFAULT_SETUP_STATE, loadedSetup)],
          isFreshStart |-> FALSE,
          storage |-> item]

\* [...new Set(words.map(w => w.categoria))]: first-seen order, no repeats
RECURSIVE uniqueCategories(_)
uniqueCategories(ws) ==
    IF ws = <<>> THEN <<>>
    ELSE LET rest == uniqueCategories(SubSeq(ws, 1, Len(ws) - 1))
             c == ws[Len(ws)].categoria
         IN IF Includes(rest, c) THEN rest ELSE Append(rest, c)

clampEffect_Off(s) == s

\* the auto-clamp effect of the constructor
clampEffect(s) ==
    LET max == Len(s.players)
    IN IF s.setupState.impostorCount > max /\ max > 0
       THEN setImpostorCount(s, max)
       ELSE s

(***************************************************************************)
(* Setup page (the variant bound to the persisted setup state).            *)
(***************************************************************************)
maxImpostors(s) == Max(1, Len(s.players))

SetupClamp(s) ==
    IF s.setupState.impostorCount > maxImpostors(s)
    THEN setImpostorCount(s, maxImpostors(s))
    ELSE s

SetupAddPlayerOp(s) ==
    LET name == s.setupState.playerNameInput
    IN IF Trim(name) = <<>> THEN s
       ELSE SetupClamp(setPlayerNameInput(addPlayer(s, name), <<>>))

SetupClearPlayersOp(s) == setPlayerNameInput(clearPlayers(s), <<>>)

SetupRemovePlayerOp(s, index) == SetupClamp(removePlayer(s, index))

adjustImpostorCount_NoUpperCheck(s, delta) ==
    LET newCount == s.setupState.impostorCount + delta
    IN IF newCount >= 0
       THEN setImpostorCount(s, newCount)
       ELSE s

adjustImpostorCount(s, delta) ==
    LET newCount == s.setupState.impostorCount + delta
    IN IF newCount >= 0 /\ newCount <= maxImpostors(s)
       THEN setImpostorCount(s, newCount)
       ELSE s

\* the values calculateRandomImpostorCount can return: every weight is at
\* least noiseFloor > 0, so the walk can stop at any i in 0..totalPlayers,
\* and the fall-through value peak lies in that range too
calculateRandomImpostorCount(totalPlayers) == 0..totalPlayers

\* config = { sharpness: 4.5, noiseFloor: 0.02 }, as 9/2 and 2/100
sharpnessTimesTwo == 9
noiseFloorPercent == 2

\* Math.exp(-num/den) in fixed point, for 0 <= num/den <= 81/8: the Taylor
\* series of exp(-num/(8 den)), raised to the 8th power by three squarings;
\* every division rounds down
RECURSIVE ExpSeries(_, _, _)
ExpSeries(y, k, term) ==
    IF k > 8 THEN 0
    ELSE (IF k % 2 = 0 THEN term ELSE 0 - term)
            + ExpSeries(y, k + 1, (term * y) \div ((k + 1) * DrawScale))

ExpNeg(num, den) ==
    LET y == (DrawScale * num) \div (8 * den)
        e1 == ExpSeries(y, 0, DrawScale)
        e2 == (e1 * e1) \div DrawScale
        e4 == (e2 * e2) \div DrawScale
    IN (e4 * e4) \div DrawScale

peakOf(totalPlayers) == (totalPlayers + 2) \div 4

\* baseWeight of count i: exp(-(i - peak)^2 / (2 sigma^2)), sigma being
\* distance / sharpness on the side of i, or 1 when that distance is 0
baseWeight(totalPlayers, i) ==
    LET peak == peakOf(totalPlayers)
        distance == IF i < peak THEN peak ELSE totalPlayers - peak
        d2 == (i - peak) * (i - peak)
    IN IF distance > 0
       THEN ExpNeg(d2 * sharpnessTimesTwo * sharpnessTimesTwo, 8 * distance * distance)
       ELSE ExpNeg(d2, 2)

\* weights[i + 1] is the finalWeight of count i
weights(totalPlayers) ==
    [k \in 1..(totalPlayers + 1) |->
        baseWeight(totalPlayers, k - 1) + (DrawScale * noiseFloorPercent) \div 100]

RECURSIVE SumTo(_, _)
SumTo(w, k) == IF k = 0 THEN 0 ELSE SumTo(w, k - 1) + w[k]

totalWeight(totalPlayers) == SumTo(weights(totalPlayers), totalPlayers + 1)

\* Math.random() * totalWeight lies in [0, totalWeight)
RandomValues(totalPlayers) == 0..(totalWeight(totalPlayers) - 1)

RECURSIVE WalkWeights_Strict(_, _, _, _, _)
WalkWeights_Strict(w, k, accumulatedWeight, randomValue, peak) ==
    IF k > Len(w) THEN peak
    ELSE IF randomValue < accumulatedWeight + w[k] THEN k - 1
    ELSE WalkWeights_Strict(w, k + 1, accumulatedWeight + w[k], randomValue, peak)

\* the loop over the weights: the first count whose accumulated weight
\* reaches randomValue, or peak when the loop ends without one
RECURSIVE WalkWeights(_, _, _, _, _)
WalkWeights(w, k, accumulatedWeight, randomValue, peak) ==
    IF k > Len(w) THEN peak
    ELSE IF randomValue <= accumulatedWeight + w[k] THEN k - 1
    ELSE WalkWeights(w, k + 1, accumulatedWeight + w[k], randomValue, peak)

sampleImpostorCount_Strict(totalPlayers, randomValue) ==
    WalkWeights_Strict(weights(totalPlayers), 1, 0, randomValue, peakOf(totalPlayers))

\* calculateRandomImpostorCount() for one value of Math.random() * totalWeight
sampleImpostorCount(totalPlayers, randomValue) ==
    WalkWeights(weights(totalPlayers), 1, 0, randomValue, peakOf(totalPlayers))

\* the configs Setup.startGame can pass to GameService.startGame
SetupStartConfigs(s) ==
    { [impostorCount |-> n,
       categories |-> s.setupState.selectedCategories,
       shareImpostorHints |-> s.setupState.shareImpostorHints,
       isRandomImpostorCount |-> s.setupState.isRandomImpostorCount] :
      n \in (IF s.setupState.isRandomImpostorCount
             THEN calculateRandomImpostorCount(Len(s.players))
             ELSE {s.setupState.impostorCount}) }

(***************************************************************************)
(* The state: the signals and fields of the GameService singleton, the     *)
(* local store entry, the pending catalog fetch, and the last operation    *)
(* (a history variable the properties refer to).                           *)
(***************************************************************************)
VARIABLES players, gameState, currentTurnIndex, currentWord, startingPlayer,
          setupState, words, categories, isFreshStart, storage, fetch, last,
          isRevealed

vars == <<players, gameState, currentTurnIndex, currentWord, startingPlayer,
          setupState, words, categories, isFreshStart, storage, fetch, last,
          isRevealed>>

Session ==
    [players |-> players,
     gameState |-> gameState,
     currentTurnIndex |-> currentTurnIndex,
     currentWord |-> currentWord,
     startingPlayer |-> startingPlayer,
     setupState |-> setupState]

\* the signals after a handler left them as s: the effects run (auto-save,
\* auto-clamp, auto-save again) before the next event is handled
RunEffects_SaveBeforeClamp(s) ==
    LET t == clampEffect(s)
    IN /\ players' = t.players
       /\ gameState' = t.gameState
       /\ currentTurnIndex' = t.currentTurnIndex
       /\ currentWord' = t.currentWord
       /\ startingPlayer' = t.startingPlayer
       /\ setupState' = t.setupState
       /\ storage' = saveState(s)

RunEffects(s) ==
    LET t == clampEffect(s)
    IN /\ players' = t.players
       /\ gameState' = t.gameState
       /\ currentTurnIndex' = t.currentTurnIndex
       /\ currentWord' = t.currentWord
       /\ startingPlayer' = t.startingPlayer
       /\ setupState' = t.setupState
       /\ storage' = saveState(t)

\* the effect of the Components/game-board view: it reads the turn index only
hideOnTurnChange_IndexOnly(s, t, revealed) ==
    IF t.currentTurnIndex # s.currentTurnIndex THEN FALSE ELSE revealed

\* the effect of the game-board view re-runs when a signal it read (the turn
\* index, the phase) changed from s to t, and hides the role
hideOnTurnChange(s, t, revealed) ==
    IF t.currentTurnIndex # s.currentTurnIndex \/ t.gameState # s.gameState
    THEN FALSE
    ELSE revealed

Handler(s, op) ==
    /\ RunEffects(s)
    /\ isRevealed' = hideOnTurnChange(Session, s, isRevealed)
    /\ last' = op
    /\ UNCHANGED <<words, categories, isFreshStart, fetch>>

\* inputs of the direct GameService calls
CountInputs == (0 - 1)..(MaxPlayers + 1)
IndexInputs == 0..(MaxPlayers - 1)
Sections == {"categories"}
\* configs of direct startGame calls: the optional isRandomImpostorCount is
\* left out, the count may be out of range, the categories may match nothing
StartConfigs ==
    { [impostorCount |-> MaxPlayers + 1, categories |-> <<"X">>, shareImpostorHints |-> TRUE],
      [impostorCount |-> 0 - 1, categories |-> <<"Y">>, shareImpostorHints |-> FALSE],
      [impostorCount |-> 2, categories |-> <<"Z">>, shareImpostorHints |-> TRUE] }

Init ==
    /\ players = DefaultSession.players
    /\ gameState = DefaultSession.gameState
    /\ currentTurnIndex = DefaultSession.currentTurnIndex
    /\ currentWord = DefaultSession.currentWord
    /\ startingPlayer = DefaultSession.startingPlayer
    /\ setupState = DefaultSession.setupState
    /\ words = <<>>
    /\ categories = <<>>
    /\ isFreshStart = TRUE
    /\ storage = saveState(DefaultSession)
    /\ fetch = "pending"
    /\ last = [op |-> "constructor"]
    /\ isRevealed = FALSE

AddPlayer ==
    \E name \in NameInputs(Len(players)) :
        /\ Len(players) < MaxPlayers
        /\ Handler(addPlayer(Session, name), [op |-> "addPlayer", name |-> name])

RemovePlayer ==
    \E index \in IndexInputs :
        Handler(removePlayer(Session, index), [op |-> "removePlayer", index |-> index])

ClearPlayers == Handler(clearPlayers(Session), [op |-> "clearPlayers"])

SetImpostorCount ==
    \E count \in CountInputs :
        Handler(setImpostorCount(Session, count), [op |-> "setImpostorCount", count |-> count])

SetPlayerNameInput ==
    \E name \in NameInputs(Len(players)) :
        Handler(setPlayerNameInput(Session, name), [op |-> "setPlayerNameInput"])

ToggleSection ==
    \E section \in Sections :
        Handler(toggleSection(Session, section), [op |-> "toggleSection"])

ToggleCategory ==
    \E i \in 1..Len(categories) :
        Handler(toggleCategory(Session, categories[i]), [op |-> "toggleCategory"])

\* a toggleCategory(category) call with a name of the caller's choosing
CategoryInputs == {"X", "Z"}

ToggleCategoryCall ==
    \E category \in CategoryInputs :
        Handler(toggleCategory(Session, category),
                [op |-> "toggleCategory", category |-> category])

SelectAllCategories ==
    Handler(selectAllCategories(Session, categories), [op |-> "selectAllCategories"])

SelectNoCategories ==
    Handler(selectNoCategories(Session), [op |-> "selectNoCategories"])

InvertCategorySelection ==
    Handler(invertCategorySelection(Session, categories), [op |-> "invertCategorySelection"])

ToggleShareImpostorHints ==
    \E checked \in BOOLEAN :
        Handler(updateSetupConfig(Session, [shareImpostorHints |-> checked]),
                [op |-> "toggleShareImpostorHints"])

ToggleRandomImpostorCount ==
    \E checked \in BOOLEAN :
        Handler(updateSetupConfig(Session, [isRandomImpostorCount |-> checked]),
                [op |-> "toggleRandomImpostorCount"])

\* one startGame(config) call, over every outcome of its random draws
StartGameWith(config) ==
    \E s \in { startGame(Session, words, config, rnd) :
                    rnd \in StartDraws(Session, words, config) } :
        Handler(s, [op |-> "startGame", config |-> config,
                    assigned |-> ReachesAssignment(Session, words, config)])

StartGame == \E config \in StartConfigs : StartGameWith(config)

NextTurn ==
    LET k == IF last.op = "nextTurn" /\ last.k > 0 /\ last.k < Len(players) THEN last.k + 1
             ELSE IF gameState = "VIEW_ROLE" /\ currentTurnIndex = 0 THEN 1
             ELSE 0
    IN Handler(nextTurn(Session), [op |-> "nextTurn", k |-> k, revealed |-> isRevealed])

\* the player taps the card of the game-board view
ToggleReveal ==
    /\ isRevealed' = ~isRevealed
    /\ last' = [op |-> "toggleReveal"]
    /\ UNCHANGED <<players, gameState, currentTurnIndex, currentWord, startingPlayer,
                   setupState, words, categories, isFreshStart, storage, fetch>>

PreviousTurn ==
    Handler(previousTurn(Session),
            [op |-> "previousTurn", from |-> gameState, index |-> currentTurnIndex])

StartVoting == Handler(startVoting(Session), [op |-> "startVoting"])

\* resetGame ends with its own saveState(); the effects then run as usual
ResetGame ==
    /\ storage' = saveState(resetGame(Session))
    /\ Handler(resetGame(Session),
               [op |-> "resetGame", from |-> gameState,
                hadRoles |-> \E i \in 1..Len(players) : "role" \in DOMAIN players[i]])

SetupAddPlayer ==
    /\ Len(players) < MaxPlayers
    /\ Handler(SetupAddPlayerOp(Session),
               [op |-> "Setup.addPlayer", name |-> setupState.playerNameInput,
                count |-> setupState.impostorCount])

SetupClearPlayers == Handler(SetupClearPlayersOp(Session), [op |-> "Setup.clearPlayers"])

SetupRemovePlayer ==
    \E index \in 0..(Len(players) - 1) :
        Handler(SetupRemovePlayerOp(Session, index), [op |-> "Setup.removePlayer"])

AdjustImpostorCount ==
    \E delta \in {0 - 1, 1} :
        Handler(adjustImpostorCount(Session, delta),
                [op |-> "adjustImpostorCount",
                 requested |-> setupState.impostorCount + delta])

SetupStartGame == \E config \in SetupStartConfigs(Session) : StartGameWith(config)

LoadWords_AlwaysSelects(ok) ==
        LET ws == IF ok THEN Catalog ELSE FallbackWords
            cats == IF ok THEN uniqueCategories(Catalog) ELSE <<"Cultura Arg">>
            s == updateSetupConfig(Session, [selectedCategories |-> cats])
        IN /\ fetch = "pending"
           /\ fetch' = "settled"
           /\ words' = ws
           /\ categories' = cats
           /\ RunEffects(s)
           /\ last' = [op |-> "loadWords", ok |-> ok, after |-> last.op]
           /\ isRevealed' = hideOnTurnChange(Session, s, isRevealed)
           /\ UNCHANGED isFreshStart

\* Setup.startGame with the random impostor count switched on, for one
\* random value of the sampler; the handler ends with router.navigate(['/game']),
\* which takes the Setup page away, so it does not run twice in a row
SetupStartGameSampled ==
    /\ setupState.isRandomImpostorCount
    /\ last.op # "Setup.startGame"
    /\ \E randomValue \in RandomValues(Len(players)) :
         LET config == [impostorCount |-> sampleImpostorCount(Len(players), randomValue),
                        categories |-> setupState.selectedCategories,
                        shareImpostorHints |-> setupState.shareImpostorHints,
                        isRandomImpostorCount |-> setupState.isRandomImpostorCount]
         IN \E s \in { startGame(Session, words, config, rnd) :
                            rnd \in StartDraws(Session, words, config) } :
                Handler(s, [op |-> "Setup.startGame", randomValue |-> randomValue,
                            config |-> config])

\* the catalog fetch settles: the try branch of loadWords or its catch branch
LoadWords(ok) ==
        LET ws == IF ok THEN Catalog ELSE FallbackWords
            cats == IF ok THEN uniqueCategories(Catalog) ELSE <<"Cultura Arg">>
            s == IF isFreshStart
                 THEN updateSetupConfig(Session, [selectedCategories |-> cats])
                 ELSE Session
        IN /\ fetch = "pending"
           /\ fetch' = "settled"
           /\ words' = ws
           /\ categories' = cats
           /\ RunEffects(s)
           /\ last' = [op |-> "loadWords", ok |-> ok, after |-> last.op]
           /\ isRevealed' = hideOnTurnChange(Session, s, isRevealed)
           /\ UNCHANGED isFreshStart

\* a fetched catalog in which two words have the same category
RepeatingCatalog ==
    Catalog \o << [categoria |-> "X", palabraSecreta |-> "w3", pistasImpostor |-> <<"h3">>] >>

LoadWordsRepeating_NoDedup ==
        LET cats == [i \in 1..Len(RepeatingCatalog) |-> RepeatingCatalog[i].categoria]
            s == IF isFreshStart
                 THEN updateSetupConfig(Session, [selectedCategories |-> cats])
                 ELSE Session
        IN /\ fetch = "pending"
           /\ fetch' = "settled"
           /\ words' = RepeatingCatalog
           /\ categories' = cats
           /\ RunEffects(s)
           /\ last' = [op |-> "loadWords", ok |-> TRUE, after |-> last.op]
           /\ isRevealed' = hideOnTurnChange(Session, s, isRevealed)
           /\ UNCHANGED isFreshStart

\* the try branch of loadWords over RepeatingCatalog
LoadWordsRepeating ==
        LET cats == uniqueCategories(RepeatingCatalog)
            s == IF isFreshStart
                 THEN updateSetupConfig(Session, [selectedCategories |-> cats])
                 ELSE Session
        IN /\ fetch = "pending"
           /\ fetch' = "settled"
           /\ words' = RepeatingCatalog
           /\ categories' = cats
           /\ RunEffects(s)
           /\ last' = [op |-> "loadWords", ok |-> TRUE, after |-> last.op]
           /\ isRevealed' = hideOnTurnChange(Session, s, isRevealed)
           /\ UNCHANGED isFreshStart

\* the page is reloaded: a new GameService is constructed over the store
Reload ==
    LET loaded == loadState(storage)
    IN /\ RunEffects(loaded.session)
       /\ isFreshStart' = loaded.isFreshStart
       /\ words' = <<>>
       /\ categories' = <<>>
       /\ fetch' = "pending"
       /\ last' = [op |-> "constructor"]
       /\ isRevealed' = FALSE

\* a new GameService is constructed over the entry getItem returns; left is
\* what loadState left in the store, before the first auto-save
Construct(item, op) ==
    LET loaded == loadState(item)
    IN /\ RunEffects(loaded.session)
       /\ isFreshStart' = loaded.isFreshStart
       /\ words' = <<>>
       /\ categories' = <<>>
       /\ fetch' = "pending"
       /\ last' = [op |-> op, left |-> loaded.storage]
       /\ isRevealed' = FALSE

\* the page is reloaded after the site data was cleared: no entry under the key
ReloadCleared == Construct(NoItem, "constructor:cleared")

\* the page is reloaded over an entry that JSON.parse rejects
ReloadCorrupt == Construct(CorruptItem, "constructor:corrupt")

\* direct startGame calls of the turn machine: one fixed config
TurnConfig == [impostorCount |-> 1, categories |-> <<"Y">>, shareImpostorHints |-> TRUE]

StartRound == StartGameWith(TurnConfig)

\* role assignment: the roster is built, the game is configured and started
Next ==
    \/ AddPlayer
    \/ AdjustImpostorCount
    \/ ToggleShareImpostorHints
    \/ StartGame
    \/ SetupStartGame
    \/ ResetGame
    \/ LoadWords(TRUE)

Spec == Init /\ [][Next]_vars

\* the turn and phase machine, with the roster edited at any time
NextTurns ==
    \/ AddPlayer
    \/ RemovePlayer
    \/ ClearPlayers
    \/ StartRound
    \/ NextTurn
    \/ PreviousTurn
    \/ StartVoting
    \/ ResetGame
    \/ LoadWords(TRUE)

SpecTurns == Init /\ [][NextTurns]_vars

\* the impostor count against the roster
NextCount ==
    \/ AddPlayer
    \/ RemovePlayer
    \/ ClearPlayers
    \/ SetImpostorCount
    \/ AdjustImpostorCount
    \/ SetupRemovePlayer
    \/ SetupClearPlayers
    \/ StartGame
    \/ ResetGame
    \/ LoadWords(TRUE)

SpecCount == Init /\ [][NextCount]_vars

\* persistence: sessions of every shape are saved, and the page is reloaded
NextPersist ==
    \/ SetPlayerNameInput
    \/ SetupAddPlayer
    \/ ToggleSection
    \/ SetupStartGame
    \/ NextTurn
    \/ ResetGame
    \/ LoadWords(TRUE)
    \/ Reload

SpecPersist == Init /\ [][NextPersist]_vars

\* startup: the service is constructed over a stored record, over an empty
\* store or over an unparsable entry, and the catalog fetch settles either way
NextStartup ==
    \/ AddPlayer
    \/ ToggleCategoryCall
    \/ SelectNoCategories
    \/ LoadWords(TRUE)
    \/ LoadWords(FALSE)
    \/ Reload
    \/ ReloadCleared
    \/ ReloadCorrupt

SpecStartup == Init /\ [][NextStartup]_vars

\* the catalog fetch settles between roster and setup mutations
NextFetch ==
    \/ AddPlayer
    \/ RemovePlayer
    \/ SetImpostorCount
    \/ ToggleCategoryCall
    \/ StartRound
    \/ LoadWords(TRUE)
    \/ LoadWords(FALSE)
    \/ Reload

SpecFetch == Init /\ [][NextFetch]_vars

\* the roster is edited from the Setup page and by direct addPlayer calls,
\* before and after a round has given the players roles
NextRoster ==
    \/ SetPlayerNameInput
    \/ SetupAddPlayer
    \/ AddPlayer
    \/ RemovePlayer
    \/ SetImpostorCount
    \/ StartRound
    \/ LoadWords(TRUE)

SpecRoster == Init /\ [][NextRoster]_vars

\* the category selection is edited, written by startGame, auto-selected by
\* the catalog load and restored by the state load
NextSelect ==
    \/ ToggleCategory
    \/ ToggleCategoryCall
    \/ SelectAllCategories
    \/ SelectNoCategories
    \/ InvertCategorySelection
    \/ StartGame
    \/ LoadWordsRepeating
    \/ LoadWords(FALSE)
    \/ Reload

SpecSelect == Init /\ [][NextSelect]_vars

\* the game-board view: roles are revealed and hidden while the turn machine runs
NextView ==
    \/ AddPlayer
    \/ StartRound
    \/ NextTurn
    \/ PreviousTurn
    \/ StartVoting
    \/ ResetGame
    \/ ToggleReveal
    \/ LoadWords(TRUE)

SpecView == Init /\ [][NextView]_vars

\* the random impostor count: the service was constructed over a stored
\* roster of 0..MaxSampled players, and the game is started from the Setup
\* page with the random count on, before the catalog has loaded
SampledRoster(n) == [i \in 1..n |-> [name |-> <<"p">>]]

InitSampler ==
    /\ \E n \in 0..MaxSampled : players = SampledRoster(n)
    /\ gameState = DefaultSession.gameState
    /\ currentTurnIndex = DefaultSession.currentTurnIndex
    /\ currentWord = DefaultSession.currentWord
    /\ startingPlayer = DefaultSession.startingPlayer
    /\ setupState = DefaultSession.setupState
    /\ words = <<>>
    /\ categories = <<>>
    /\ isFreshStart = FALSE
    /\ storage = saveState([DefaultSession EXCEPT !.players = players])
    /\ fetch = "pending"
    /\ last = [op |-> "constructor"]
    /\ isRevealed = FALSE

NextSampler ==
    \/ ToggleRandomImpostorCount
    \/ SetupStartGameSampled

SpecSampler == InitSampler /\ [][NextSampler]_vars

(***************************************************************************)
(* Properties.                                                             *)
(***************************************************************************)
CountRole(ps, role) == Cardinality({ i \in 1..Len(ps) : Get(ps[i], "role") = role })
Names(ps) == [i \in 1..Len(ps) |-> ps[i].name]
Assigned == last.op = "startGame" /\ last.assigned
ClampTo(n, lo, hi) == Min(Max(n, lo), hi)

\* C1 as stated: after a startGame(config) call that reaches role
\* assignment, the number of Impostors is config.impostorCount and the
\* number of Citizens is playerCount - config.impostorCount, for every count
\* the caller passes.
C1_AsStated ==
    Assigned =>
        /\ CountRole(players, "Impostor") = last.config.impostorCount
        /\ CountRole(players, "Citizen") = Len(players) - last.config.impostorCount

\* C1 amended: after a startGame(config) call that reaches role assignment,
\* the number of Impostors is config.impostorCount limited to
\* [0, playerCount], the number of Citizens is playerCount minus that, and
\* every player has one of the two roles.
C1_RoleCounts ==
    Assigned =>
        LET n == ClampTo(last.config.impostorCount, 0, Len(players))
        IN /\ CountRole(players, "Impostor") = n
           /\ CountRole(players, "Citizen") = Len(players) - n

C1_Witness ==
    /\ Assigned
    /\ last.config.impostorCount = 2
    /\ CountRole(players, "Impostor") = 2
    /\ CountRole(players, "Citizen") = Len(players) - 2

\* C7: in every reachable state a player whose role is Citizen has no
\* impostorHint; only Impostors hold a hint.
C7_CitizensHaveNoHint ==
    \A i \in 1..Len(players) :
        Get(players[i], "impostorHint") # Undefined => Get(players[i], "role") = "Impostor"

C7_Witness ==
    /\ Assigned
    /\ \E i, j \in 1..Len(players) :
          /\ Get(players[i], "role") = "Citizen"
          /\ Get(players[i], "impostorHint") = Undefined
          /\ Get(players[j], "role") = "Impostor"
          /\ Get(players[j], "impostorHint") = "h2"

C9_StartGameResult ==
    [][ ( /\ last'.op = "startGame"
          /\ words # <<>>
          /\ Len(players) >= 3
          /\ \E w \in 1..Len(words) : Includes(last'.config.categories, words[w].categoria) )
        => ( /\ gameState' = "VIEW_ROLE"
             /\ currentTurnIndex' = 0
             /\ currentWord' # Null
             /\ Includes(words, currentWord'[1])
             /\ Includes(last'.config.categories, currentWord'[1].categoria)
             /\ startingPlayer' # Null
             /\ \E i \in 1..Len(players') : players'[i].name = startingPlayer'[1]
             /\ Names(players') = Names(players) ) ]_vars

C9_Witness ==
    /\ Assigned
    /\ gameState = "VIEW_ROLE"
    /\ currentTurnIndex = 0
    /\ currentWord = Some(Catalog[2])
    /\ last.config.categories = <<"Y">>
    /\ startingPlayer = Some(<<"b">>)
    /\ Names(players) = << <<"a">>, <<"b">>, <<"b">> >>

\* C2 as stated: in every reachable state setupState.impostorCount lies in
\* [0, players.length], also when the roster is empty.
C2_AsStated ==
    /\ setupState.impostorCount >= 0
    /\ setupState.impostorCount <= Len(players)

\* C2 amended: in every reachable state with a non-empty roster (the clamp
\* effect having run) setupState.impostorCount is at most players.length.
C2_ClampedToRoster ==
    Len(players) > 0 => setupState.impostorCount <= Len(players)

C2_Witness ==
    /\ last.op = "setImpostorCount"
    /\ Len(players) = 2
    /\ last.count > Len(players)
    /\ setupState.impostorCount = Len(players)

InRange(n, s) == n >= 0 /\ n <= Max(1, Len(s.players))

\* C3 as stated: setImpostorCount(n) and adjustImpostorCount(delta) leave
\* the session unchanged when the requested value is outside
\* [0, max(1, playerCount)].
C3_AsStated ==
    [][ ( \/ last'.op = "setImpostorCount" /\ ~InRange(last'.count, Session)
          \/ last'.op = "adjustImpostorCount" /\ ~InRange(last'.requested, Session) )
        => Session' = Session ]_vars

\* C3 amended: adjustImpostorCount(delta) stores impostorCount + delta when
\* that value is within [0, max(1, playerCount)] and changes nothing else,
\* and leaves the session unchanged otherwise; setImpostorCount(n) checks no
\* range and stores n (which the clamp effect lowers to the size of a
\* non-empty roster when n exceeds it), changing nothing else.
C3_AdjustValidatesSetStores ==
    [][ /\ last'.op = "adjustImpostorCount" =>
             IF InRange(last'.requested, Session)
             THEN Session' = setImpostorCount(Session, last'.requested)
             ELSE Session' = Session
        /\ last'.op = "setImpostorCount" =>
             IF Len(players) > 0 /\ last'.count > Len(players)
             THEN Session' = setImpostorCount(Session, Len(players))
             ELSE Session' = setImpostorCount(Session, last'.count) ]_vars

C3_Witness ==
    /\ last.op = "adjustImpostorCount"
    /\ Len(players) = 2
    /\ last.requested = 3
    /\ setupState.impostorCount = 2

\* C4: in every reachable state whose phase is VIEW_ROLE the turn index is
\* within [0, players.length).
C4_TurnIndexInRoster ==
    gameState = "VIEW_ROLE" =>
        currentTurnIndex >= 0 /\ currentTurnIndex < Len(players)

\* C5: resetGame(), in any phase, sets the phase to SETUP, the turn index to
\* 0, the current word and the starting player to null, removes role and
\* impostorHint from every player, and leaves the names, their order and the
\* whole SetupState unchanged.
C5_ResetGame ==
    [][ last'.op = "resetGame" =>
          /\ gameState' = "SETUP"
          /\ currentTurnIndex' = 0
          /\ currentWord' = Null
          /\ startingPlayer' = Null
          /\ \A i \in 1..Len(players') : DOMAIN players'[i] = {"name"}
          /\ Names(players') = Names(players)
          /\ setupState' = setupState ]_vars

C5_Witness ==
    /\ last.op = "resetGame"
    /\ last.from = "VOTING"
    /\ last.hadRoles
    /\ Names(players) = << <<"a">>, <<"b">>, <<"b">> >>
    /\ "categories" \in DOMAIN setupState

\* C10: from phase VIEW_ROLE at turn index 0 with playerCount >= 1 players,
\* the k-th consecutive nextTurn() call leaves the phase at VIEW_ROLE with
\* turn index k when k < playerCount, and the playerCount-th call sets the
\* phase to PLAYING with the turn index still playerCount - 1; the index
\* never exceeds playerCount - 1.
C10_NextTurnRound ==
    (last.op = "nextTurn" /\ last.k >= 1 /\ last.k <= Len(players)) =>
        /\ last.k < Len(players) => gameState = "VIEW_ROLE" /\ currentTurnIndex = last.k
        /\ last.k = Len(players) =>
              gameState = "PLAYING" /\ currentTurnIndex = Len(players) - 1
        /\ currentTurnIndex <= Len(players) - 1

C10_Witness ==
    /\ last.op = "nextTurn"
    /\ Len(players) = 3
    /\ last.k = 3
    /\ gameState = "PLAYING"
    /\ currentTurnIndex = 2

\* what the consumers of a roster can read from it: name, role and
\* impostorHint of every player (a missing property reads as undefined)
Readable(ps) ==
    [i \in 1..Len(ps) |->
        [name |-> ps[i].name,
         role |-> Get(ps[i], "role"),
         impostorHint |-> Get(ps[i], "impostorHint")]]

\* C6: persistence round-trips: the session a newly constructed service
\* loads from the record the last save wrote equals the saved session in
\* roster (as read by its consumers), phase, turn index, current word,
\* starting player and setup state.
C6_RoundTrip ==
    [][ last'.op = "constructor" =>
          /\ Readable(players') = Readable(players)
          /\ gameState' = gameState
          /\ currentTurnIndex' = currentTurnIndex
          /\ currentWord' = currentWord
          /\ startingPlayer' = startingPlayer
          /\ setupState' = setupState ]_vars

C6_Witness ==
    /\ last.op = "constructor"
    /\ ~isFreshStart
    /\ gameState = "VIEW_ROLE"
    /\ currentTurnIndex = 1
    /\ currentWord = Some(Catalog[1])
    /\ startingPlayer = Some(<<"b">>)
    /\ setupState.playerNameInput = <<"b", " ">>
    /\ "categories" \in DOMAIN setupState
    /\ \E i, j \in 1..Len(players) :
          /\ players[i] = [name |-> <<"a">>, role |-> "Citizen"]
          /\ players[j] = [name |-> <<"b">>, role |-> "Impostor", impostorHint |-> "h1"]

\* C11: previousTurn() in phase PLAYING sets the phase to VIEW_ROLE and the
\* turn index to players.length - 1; in phase VIEW_ROLE with index > 0 it
\* lowers the index by one and keeps the phase.
C11_PreviousTurn ==
    [][ last'.op = "previousTurn" =>
          /\ gameState = "PLAYING" =>
                gameState' = "VIEW_ROLE" /\ currentTurnIndex' = Len(players) - 1
          /\ (gameState = "VIEW_ROLE" /\ currentTurnIndex > 0) =>
                gameState' = "VIEW_ROLE" /\ currentTurnIndex' = currentTurnIndex - 1 ]_vars

C11_Witness ==
    /\ last.op = "previousTurn"
    /\ last.from = "PLAYING"
    /\ Len(players) = 3
    /\ gameState = "VIEW_ROLE"
    /\ currentTurnIndex = 2

\* C12: previousTurn() changes neither the phase nor the turn index when
\* the phase is SETUP, VOTING or RESULT, whatever the turn index, and when
\* the phase is VIEW_ROLE with turn index 0.
C12_PreviousTurnNoOp ==
    [][ ( /\ last'.op = "previousTurn"
          /\ \/ gameState \in {"SETUP", "VOTING", "RESULT"}
             \/ gameState = "VIEW_ROLE" /\ currentTurnIndex = 0 )
        => (gameState' = gameState /\ currentTurnIndex' = currentTurnIndex) ]_vars

\* the phase edges of the linear progression, the undo edge and the reset edge
PhaseEdges ==
    { <<"SETUP", "VIEW_ROLE">>, <<"VIEW_ROLE", "PLAYING">>, <<"PLAYING", "VOTING">>,
      <<"VOTING", "RESULT">>, <<"PLAYING", "VIEW_ROLE">> }
        \cup { <<ph, "SETUP">> : ph \in {"SETUP", "VIEW_ROLE", "PLAYING", "VOTING", "RESULT"} }

\* C15: every change of phase goes along SETUP -> VIEW_ROLE -> PLAYING ->
\* VOTING -> RESULT, along the undo edge PLAYING -> VIEW_ROLE, or along the
\* reset edge from any phase to SETUP.
C15_PhaseEdges ==
    [][ gameState' # gameState => <<gameState, gameState'>> \in PhaseEdges ]_vars

\* the fields of the session other than the SetupState keep their values
RoundUntouched ==
    /\ players' = players
    /\ gameState' = gameState
    /\ currentTurnIndex' = currentTurnIndex
    /\ currentWord' = currentWord
    /\ startingPlayer' = startingPlayer

\* the SetupState holds the keys of the config over its former keys, with
\* the impostor count lowered to the size of a non-empty roster
ConfigWritten(config) ==
    LET merged == Spread(setupState, config)
    IN setupState' = IF Len(players) > 0 /\ merged.impostorCount > Len(players)
                     THEN [merged EXCEPT !.impostorCount = Len(players)]
                     ELSE merged

\* C13 as stated: startGame(config) with no catalog loaded or fewer than
\* three players leaves the whole session, the SetupState included, as it was.
C13_AsStated ==
    [][ (last'.op = "startGame" /\ (Len(words) = 0 \/ Len(players) < 3))
        => (RoundUntouched /\ setupState' = setupState) ]_vars

\* C13: startGame(config) with no catalog loaded or fewer than three
\* players leaves the roster, the phase, the turn index, the current word and
\* the starting player as they were, and writes the config into the SetupState.
C13_NotReadyKeepsRound ==
    [][ (last'.op = "startGame" /\ (Len(words) = 0 \/ Len(players) < 3))
        => (RoundUntouched /\ ConfigWritten(last'.config)) ]_vars

C13_Witness ==
    /\ last.op = "startGame"
    /\ last.config.categories = <<"X">>
    /\ Len(words) > 0
    /\ Len(players) = 2
    /\ gameState = "SETUP"
    /\ currentWord = Null
    /\ setupState.categories = <<"X">>
    /\ setupState.impostorCount = 2

\* C14 as stated: when no catalog entry has a category of config.categories,
\* startGame aborts with no field of the session changed.
C14_AsStated ==
    [][ ( /\ last'.op = "startGame"
          /\ Len(words) > 0
          /\ Len(players) >= 3
          /\ \A i \in 1..Len(words) : ~Includes(last'.config.categories, words[i].categoria) )
        => (RoundUntouched /\ setupState' = setupState) ]_vars

\* C14: when no catalog entry has a category of config.categories, startGame
\* aborts with the roster, the phase, the turn index, the current word and the
\* starting player as they were; the SetupState has received the config.
C14_EmptyFilterKeepsRound ==
    [][ ( /\ last'.op = "startGame"
          /\ Len(words) > 0
          /\ Len(players) >= 3
          /\ \A i \in 1..Len(words) : ~Includes(last'.config.categories, words[i].categoria) )
        => (RoundUntouched /\ ConfigWritten(last'.config)) ]_vars

C14_Witness ==
    /\ last.op = "startGame"
    /\ last.config.categories = <<"Z">>
    /\ ~last.assigned
    /\ Len(words) > 0
    /\ Len(players) = 3
    /\ gameState = "SETUP"
    /\ currentWord = Null
    /\ setupState.categories = <<"Z">>

\* C16: once the effects of a change have run, the record stored under the
\* key is the snapshot of the current session: roster (as read by its
\* consumers), phase, turn index, current word, starting player and
\* SetupState; the last write is the one that stays.
C16_StoredIsCurrent ==
    /\ storage.kind = "json"
    /\ DOMAIN storage.state = {"players", "gameState", "currentTurnIndex",
                               "currentWord", "setupState", "startingPlayer"}
    /\ Readable(storage.state.players) = Readable(players)
    /\ storage.state.gameState = gameState
    /\ storage.state.currentTurnIndex = currentTurnIndex
    /\ storage.state.currentWord = currentWord
    /\ storage.state.startingPlayer = startingPlayer
    /\ storage.state.setupState = setupState

C16_Witness ==
    /\ last.op = "setImpostorCount"
    /\ last.count = MaxPlayers + 1
    /\ Len(players) = 2
    /\ setupState.impostorCount = 2
    /\ storage.kind = "json"
    /\ storage.state.setupState.impostorCount = 2
    /\ Len(storage.state.players) = 2

\* C17: when the stored entry cannot be parsed at startup, loadState removes
\* the entry and every field of the session is at its default: nothing of
\* the entry is restored.
C17_CorruptRecord ==
    [][ last'.op = "constructor:corrupt" =>
          /\ last'.left = NoItem
          /\ players' = <<>>
          /\ gameState' = "SETUP"
          /\ currentTurnIndex' = 0
          /\ currentWord' = Null
          /\ startingPlayer' = Null
          /\ setupState' = DEFAULT_SETUP_STATE ]_vars

C17_Witness ==
    /\ last.op = "constructor:corrupt"
    /\ last.left = NoItem
    /\ players = <<>>
    /\ setupState = DEFAULT_SETUP_STATE
    /\ fetch = "pending"

\* C18: a service constructed over no stored entry is a fresh start and one
\* constructed over a stored record is not; when the catalog fetch settles
\* (catalog or fallback) on a fresh start, selectedCategories becomes the
\* category list of the catalog; otherwise selectedCategories keeps its
\* value, whether or not the catalog has its categories.
C18_AutoSelect ==
    [][ /\ last'.op = "constructor:cleared" => isFreshStart'
        /\ last'.op = "constructor" => ~isFreshStart'
        /\ last'.op = "loadWords" =>
              /\ categories' = IF last'.ok THEN <<"X", "Y">> ELSE <<"Cultura Arg">>
              /\ isFreshStart => setupState'.selectedCategories = categories'
              /\ ~isFreshStart => setupState'.selectedCategories = setupState.selectedCategories
      ]_vars

C18_Witness ==
    /\ last.op = "loadWords"
    /\ ~last.ok
    /\ ~isFreshStart
    /\ categories = <<"Cultura Arg">>
    /\ setupState.selectedCategories = <<"X", "Y">>

\* C19 as stated: the mutation made just before the catalog fetch settles
\* is still in the session after it settles: the roster after addPlayer or
\* removePlayer, the impostor count after setImpostorCount, the selection
\* after toggleCategory, the SetupState after the config write of startGame.
C19_AsStated ==
    [][ last'.op = "loadWords" =>
          /\ last.op \in {"addPlayer", "removePlayer"} => players' = players
          /\ last.op = "setImpostorCount" =>
                setupState'.impostorCount = setupState.impostorCount
          /\ last.op = "toggleCategory" =>
                setupState'.selectedCategories = setupState.selectedCategories
          /\ last.op = "startGame" => setupState' = setupState ]_vars

\* C19: when the catalog fetch settles, the roster, the phase, the turn
\* index, the current word, the starting player and every key of the
\* SetupState other than selectedCategories keep the values the earlier
\* operations gave them; selectedCategories keeps its value too unless the
\* service was constructed over no stored entry.
C19_FetchKeepsMutations ==
    [][ last'.op = "loadWords" =>
          /\ RoundUntouched
          /\ DOMAIN setupState' = DOMAIN setupState
          /\ \A f \in DOMAIN setupState \ {"selectedCategories"} :
                setupState'[f] = setupState[f]
          /\ ~isFreshStart =>
                setupState'.selectedCategories = setupState.selectedCategories ]_vars

C19_Witness ==
    /\ last.op = "loadWords"
    /\ isFreshStart
    /\ Len(players) = 2
    /\ setupState.impostorCount = 0
    /\ "categories" \in DOMAIN setupState
    /\ setupState.categories = <<"Y">>
    /\ setupState.selectedCategories = <<"X", "Y">>

\* the session after a name that trims to trimmed was added: one player
\* {name: trimmed} with no role at the end of the roster, the players before
\* it as they were, the impostor count lowered to the new roster size if it
\* was above it, nothing else but the name-input buffer changed
Appended(trimmed) ==
    /\ players' = Append(players, [name |-> trimmed])
    /\ DOMAIN players'[Len(players')] = {"name"}
    /\ setupState'.impostorCount =
          IF setupState.impostorCount > Len(players) + 1
          THEN Len(players) + 1
          ELSE setupState.impostorCount
    /\ DOMAIN setupState' = DOMAIN setupState
    /\ \A f \in DOMAIN setupState \ {"impostorCount", "playerNameInput"} :
          setupState'[f] = setupState[f]
    /\ gameState' = gameState
    /\ currentTurnIndex' = currentTurnIndex
    /\ currentWord' = currentWord
    /\ startingPlayer' = startingPlayer

C21_NoDuplicateSelection ==
    \A i, j \in 1..Len(setupState.selectedCategories) :
        i # j => setupState.selectedCategories[i] # setupState.selectedCategories[j]

C21_Witness ==
    /\ last.op = "loadWords"
    /\ Len(words) = 3
    /\ words[1].categoria = words[3].categoria
    /\ isFreshStart
    /\ setupState.selectedCategories = <<"X", "Y">>

Cumulative(totalPlayers, i) == SumTo(weights(totalPlayers), i + 1)

\* C23: for every player count and every random value in [0, total weight)
\* the sampler returns a count in 0..playerCount, the first one whose
\* accumulated weight reaches or exceeds the random value; every count of
\* that range has a positive weight and is returned for some random value;
\* no weight is larger than the weight at peak = floor((playerCount + 2) / 4).
C23_Sampler ==
    LET n == Len(players)
        w == weights(n)
    IN /\ last.op = "Setup.startGame" =>
             LET count == last.config.impostorCount
             IN /\ count \in 0..n
                /\ Cumulative(n, count) >= last.randomValue
                /\ \A j \in 0..(count - 1) : Cumulative(n, j) < last.randomValue
       /\ n <= MaxSampled =>
             /\ \A i \in 0..n : w[i + 1] > 0
             /\ \A i \in 0..n :
                   /\ Cumulative(n, i) - 1 \in RandomValues(n)
                   /\ sampleImpostorCount(n, Cumulative(n, i) - 1) = i
             /\ \A i \in 0..n : w[i + 1] <= w[(n + 2) \div 4 + 1]

C23_Witness ==
    /\ last.op = "Setup.startGame"
    /\ Len(players) = 10
    /\ last.config.impostorCount = 0
    /\ last.randomValue = Cumulative(10, 0)
    /\ setupState.impostorCount = 0

\* C24: in every reachable state whose phase is not SETUP a round is in
\* progress: the current word is not null, the roster has at least 3
\* players and every player of the roster has a role.
C24_RoundInProgress ==
    gameState # "SETUP" =>
        /\ currentWord # Null
        /\ Len(players) >= 3
        /\ \A i \in 1..Len(players) : Get(players[i], "role") \in {"Citizen", "Impostor"}

\* C25: a service constructed over a stored entry that fails to parse is
\* not a fresh start although nothing was restored: its SetupState is the
\* default one, with no category selected, and the catalog load that
\* follows selects none, so selectedCategories is empty until the user
\* selects a category.
C25_CorruptIsNotFresh ==
    [][ /\ last'.op = "constructor:corrupt" =>
              /\ ~isFreshStart'
              /\ setupState' = DEFAULT_SETUP_STATE
              /\ setupState'.selectedCategories = <<>>
        /\ (last'.op = "loadWords" /\ last.op = "constructor:corrupt") =>
              /\ Len(categories') > 0
              /\ setupState'.selectedCategories = <<>>
        /\ (~isFreshStart /\ last'.op \in {"loadWords", "addPlayer"}) =>
              setupState'.selectedCategories = setupState.selectedCategories ]_vars

C25_Witness ==
    /\ last.op = "loadWords"
    /\ last.after = "constructor:corrupt"
    /\ last.ok
    /\ ~isFreshStart
    /\ categories = <<"X", "Y">>
    /\ setupState.selectedCategories = <<>>

====
